---- MODULE Spec2Model ----
(***************************************************************************)
(* Model of native-engine/datafusion-ext-commons/src/array_builder.rs:     *)
(* the builder factory (new_array_builder), the gather engine              *)
(* (builder_extend), the null appender (builder_append_null), the          *)
(* NullBuilder and ConfiguredDecimalBuilder wrappers and make_batch.       *)
(*                                                                         *)
(* Conventions                                                             *)
(*   - a type descriptor (arrow DataType) is a record with a "tag";        *)
(*     timestamp zones are not modelled (every match arm ignores them);    *)
(*   - a row (cell) is <<>> when null and <<v>> when valid;                *)
(*   - scalar values of every leaf type are integers (a string is modelled *)
(*     by an integer code), so that rows of different types never get      *)
(*     compared as values of different sorts;                              *)
(*   - indices are 0-based as in the source, sequences 1-based;            *)
(*   - a panic (unwrap on None/Err, unimplemented!) is a result record     *)
(*     with ok false;   a panic aborts the build and the builder is lost;  *)
(*   - the arrow builders the file drives (PrimitiveBuilder, ListBuilder,  *)
(*     StructBuilder, the dictionary builders, make_builder,               *)
(*     RecordBatch::try_new) are modelled at the call sites that use them. *)
(***************************************************************************)
EXTENDS Integers, Sequences, FiniteSets, TLC

VARIABLES col_type, builder, finished, phase, failure, history, schema, arrays, batch

vars == <<col_type, builder, finished, phase, failure, history, schema, arrays, batch>>

-----------------------------------------------------------------------------
(* Bounds of the exploration *)

MaxOps == 2

MaxIdx == 2

-----------------------------------------------------------------------------
(* Type descriptors (arrow::datatypes::DataType) *)

Prim(tag) == [tag |-> tag]

Null == [tag |-> "Null"]

Timestamp(unit) == [tag |-> "Timestamp", unit |-> unit]

Time32(unit) == [tag |-> "Time32", unit |-> unit]

Time64(unit) == [tag |-> "Time64", unit |-> unit]

Decimal128(precision, scale) == [tag |-> "Decimal128", precision |-> precision, scale |-> scale]

Decimal256(precision, scale) == [tag |-> "Decimal256", precision |-> precision, scale |-> scale]

Dictionary(key_type, value_type) == [tag |-> "Dictionary", key |-> key_type, value |-> value_type]

List(elem) == [tag |-> "List", elem |-> elem]

Struct(fields) == [tag |-> "Struct", fields |-> fields]

-----------------------------------------------------------------------------
(* Results of operations that may panic *)

NoFailure == [at |-> "", kind |-> "none", msg |-> "", arg |-> Null]

\* the panic err, raised inside operation op
FailureAt(op, err) == [at |-> op, kind |-> err.kind, msg |-> err.msg, arg |-> err.arg]

Ok(b) == [ok |-> TRUE, b |-> b]

Panic(kind, msg, arg) == [ok |-> FALSE, err |-> [kind |-> kind, msg |-> msg, arg |-> arg]]

\* Option::unwrap() on the None of a failed downcast_mut / downcast_ref
DowncastPanic(dt) == Panic("unwrap", "called Option::unwrap() on a None value", dt)

\* unimplemented!(msg, shown): msg and the value interpolated into it
Unimplemented(msg, shown) == Panic("unimplemented", msg, shown)

-----------------------------------------------------------------------------
(* Builder values *)

NoBuilder == [kind |-> "none"]

\* arrow PrimitiveBuilder / BooleanBuilder / GenericStringBuilder / GenericBinaryBuilder
SimpleBuilder(arrowty) == [kind |-> arrowty \o "Builder", arrowty |-> arrowty, rows |-> <<>>]

\* NullBuilder::new
NullBuilder_new == [kind |-> "NullBuilder", len |-> 0]

\* ConfiguredDecimalBuilder::with_capacity
ConfiguredDecimalBuilder_with_capacity(width, precision, scale) ==
    [kind |-> "ConfiguredDecimal" \o width \o "Builder",
     inner |-> SimpleBuilder("Decimal" \o width),
     precision |-> precision, scale |-> scale]

\* PrimitiveDictionaryBuilder::<KeyType, ValueType>::new()
PrimitiveDictionaryBuilder_new(keyarrowty, valuearrowty) ==
    [kind |-> "PrimitiveDictionaryBuilder", key |-> keyarrowty, value |-> valuearrowty,
     keys |-> <<>>, values |-> <<>>]

\* StringDictionaryBuilder::<KeyType>::new(); dedup is the set of interned
\* positions of values
StringDictionaryBuilder_new(keyarrowty) ==
    [kind |-> "StringDictionaryBuilder", key |-> keyarrowty, value |-> "String",
     keys |-> <<>>, values |-> <<>>, dedup |-> {}]

\* ListBuilder::with_capacity(values_builder, capacity)
ListBuilder_with_capacity(values_builder) ==
    [kind |-> "ListBuilder", values |-> values_builder, offsets |-> <<0>>, valid |-> <<>>]

\* StructBuilder::new(fields, field_builders)
StructBuilder_new(fields, field_builders) ==
    [kind |-> "StructBuilder", fields |-> fields, field_builders |-> field_builders,
     valid |-> <<>>]

\* The concrete Rust type of a builder, as Any::downcast_mut sees it
RECURSIVE ConcreteType(_)
ConcreteType(b) ==
    CASE b.kind \in {"PrimitiveDictionaryBuilder", "StringDictionaryBuilder"} ->
            [kind |-> b.kind, key |-> b.key, value |-> b.value]
      [] b.kind = "ListBuilder" -> [kind |-> b.kind, elem |-> ConcreteType(b.values)]
      [] OTHER -> [kind |-> b.kind]

\* ArrayBuilder::len
builder_len(b) ==
    CASE b.kind = "NullBuilder" -> b.len
      [] b.kind \in {"ConfiguredDecimal128Builder", "ConfiguredDecimal256Builder"} -> Len(b.inner.rows)
      [] b.kind \in {"PrimitiveDictionaryBuilder", "StringDictionaryBuilder"} -> Len(b.keys)
      [] b.kind \in {"ListBuilder", "StructBuilder"} -> Len(b.valid)
      [] b.kind = "none" -> 0
      [] OTHER -> Len(b.rows)

-----------------------------------------------------------------------------
(* new_array_builder *)

IntTags == {"Int8", "Int16", "Int32", "Int64", "UInt8", "UInt16", "UInt32", "UInt64"}

TimeUnits == {"Second", "Millisecond", "Microsecond", "Nanosecond"}

\* arrow make_builder: the arms for the descriptors this model feeds it;
\* timestamps keep no zone, Decimal128 becomes the plain Decimal128Builder,
\* Struct goes through StructBuilder::from_fields, which calls make_builder
\* (never new_array_builder) on every field
RECURSIVE make_builder(_)
RECURSIVE make_builder_fields(_, _, _)
make_builder(dt) ==
    CASE dt.tag \in IntTags \cup {"Boolean", "Float32", "Float64", "Date32", "Date64", "Binary"} ->
            Ok(SimpleBuilder(dt.tag))
      [] dt.tag = "Utf8" -> Ok(SimpleBuilder("String"))
      [] dt.tag = "Decimal128" -> Ok(SimpleBuilder("Decimal128"))
      [] dt.tag = "Timestamp" -> Ok(SimpleBuilder("Timestamp" \o dt.unit))
      [] dt.tag = "Time32" /\ dt.unit \in {"Second", "Millisecond"} ->
            Ok(SimpleBuilder("Time32" \o dt.unit))
      [] dt.tag = "Time64" /\ dt.unit \in {"Microsecond", "Nanosecond"} ->
            Ok(SimpleBuilder("Time64" \o dt.unit))
      [] dt.tag = "Struct" -> make_builder_fields(dt.fields, 1, <<>>)
      [] dt.tag = "Null" -> Unimplemented("not implemented", dt)
      [] OTHER -> Panic("panic", "Data type is not currently supported", dt)

make_builder_fields(fields, j, acc) ==
    IF j > Len(fields) THEN Ok(StructBuilder_new(fields, acc))
    ELSE LET r == make_builder(fields[j])
         IN  IF r.ok THEN make_builder_fields(fields, j + 1, Append(acc, r.b)) ELSE r

\* make_dictionary_builder!(@match_key ...): the arrow name of the key type, the empty string for the _ arm
make_dictionary_builder_match_key(key_type) ==
    IF key_type.tag \in IntTags THEN key_type.tag ELSE ""

\* make_dictionary_builder!(@match_value ...)
make_dictionary_builder_match_value(keyarrowty, value_type) ==
    CASE value_type.tag \in IntTags \cup {"Float32", "Float64", "Date32", "Date64"} ->
            Ok(PrimitiveDictionaryBuilder_new(keyarrowty, value_type.tag))
      [] value_type.tag = "Timestamp" /\ value_type.unit = "Microsecond" ->
            Ok(PrimitiveDictionaryBuilder_new(keyarrowty, "TimestampMicrosecond"))
      [] value_type.tag \in {"Utf8", "LargeUtf8"} ->
            Ok(StringDictionaryBuilder_new(keyarrowty))
      [] OTHER -> Unimplemented("dictionary value type not supported", value_type)

make_dictionary_builder(key_type, value_type) ==
    IF make_dictionary_builder_match_key(key_type) = ""
    THEN Unimplemented("unsupported dictionary key type", key_type)
    ELSE make_dictionary_builder_match_value(make_dictionary_builder_match_key(key_type), value_type)

\* make_list_builder!(@match_type ...): the arrow name of the element, the empty string for the _ arm
make_list_builder_match_type(elem) ==
    CASE elem.tag \in IntTags \cup {"Float32", "Float64", "Date32", "Date64", "Boolean",
                                     "Binary", "LargeBinary"} -> elem.tag
      [] elem.tag = "Timestamp" /\ elem.unit = "Microsecond" -> "TimestampMicrosecond"
      [] elem.tag = "Utf8" -> "String"
      [] elem.tag = "LargeUtf8" -> "LargeString"
      [] OTHER -> ""

make_list_builder(elem) ==
    IF make_list_builder_match_type(elem) = ""
    THEN Unimplemented("unsupported list data type", elem)
    ELSE Ok(ListBuilder_with_capacity(SimpleBuilder(make_list_builder_match_type(elem))))

new_array_builder(dt) ==
    CASE dt.tag = "Null" -> Ok(NullBuilder_new)
      [] dt.tag = "Decimal128" -> Ok(ConfiguredDecimalBuilder_with_capacity("128", dt.precision, dt.scale))
      [] dt.tag = "Decimal256" -> Ok(ConfiguredDecimalBuilder_with_capacity("256", dt.precision, dt.scale))
      [] dt.tag = "Dictionary" -> make_dictionary_builder(dt.key, dt.value)
      [] dt.tag = "List" -> make_list_builder(dt.elem)
      [] OTHER -> make_builder(dt)

-----------------------------------------------------------------------------
(* Immutable arrays (arrow ArrayRef) *)

\* PrimitiveArray / BooleanArray / GenericStringArray / GenericBinaryArray
LeafArray(dt, rows) == [dt |-> dt, rows |-> rows]

\* NullArray::new(len)
NullArray_new(len) == [dt |-> Null, len |-> len]

\* DictionaryArray<K>: a key array and a value array
DictionaryArray(dt, keys, values) == [dt |-> dt, keys |-> keys, values |-> values]

\* ListArray: validity, len + 1 offsets into one child array
ListArray(dt, valid, offsets, values) ==
    [dt |-> dt, valid |-> valid, offsets |-> offsets, values |-> values]

\* StructArray: validity and one child array per field
StructArray(dt, valid, columns) == [dt |-> dt, valid |-> valid, columns |-> columns]

\* Array::len
array_len(a) ==
    CASE a.dt.tag = "Null" -> a.len
      [] a.dt.tag = "Dictionary" -> Len(a.keys)
      [] a.dt.tag \in {"List", "Struct"} -> Len(a.valid)
      [] OTHER -> Len(a.rows)

\* Array::is_valid(i)
is_valid(a, i) ==
    CASE a.dt.tag = "Null" -> FALSE
      [] a.dt.tag = "Dictionary" -> a.keys[i + 1] # <<>>
      [] a.dt.tag \in {"List", "Struct"} -> a.valid[i + 1]
      [] OTHER -> a.rows[i + 1] # <<>>

\* PrimitiveArray::value(i) and the like
array_value(a, i) == a.rows[i + 1][1]

\* DictionaryArray::key(i).unwrap(), called on valid rows only
DictionaryArray_key(a, i) == a.keys[i + 1][1]

\* Array::slice(offset, length)
RECURSIVE array_slice(_, _, _)
array_slice(a, offset, length) ==
    CASE a.dt.tag = "Null" -> NullArray_new(length)
      [] a.dt.tag = "Dictionary" ->
            [a EXCEPT !.keys = SubSeq(a.keys, offset + 1, offset + length)]
      [] a.dt.tag = "List" ->
            [a EXCEPT !.valid = SubSeq(a.valid, offset + 1, offset + length),
                      !.offsets = SubSeq(a.offsets, offset + 1, offset + length + 1)]
      [] a.dt.tag = "Struct" ->
            [a EXCEPT !.valid = SubSeq(a.valid, offset + 1, offset + length),
                      !.columns = [j \in 1..Len(a.columns) |->
                                      array_slice(a.columns[j], offset, length)]]
      [] OTHER -> [a EXCEPT !.rows = SubSeq(a.rows, offset + 1, offset + length)]

\* ListArray::value(i): the slice of the child array that row i spans
ListArray_value(a, i) ==
    array_slice(a.values, a.offsets[i + 1] - a.offsets[1], a.offsets[i + 2] - a.offsets[i + 1])

\* The arrow name (as pasted into [<name Array>] / [<name Builder>]) of a
\* leaf descriptor, the empty string for a descriptor that is not a leaf
arrow_name(dt) ==
    CASE dt.tag \in IntTags \cup {"Boolean", "Float32", "Float64", "Date32", "Date64",
                                   "Binary", "LargeBinary", "Decimal128", "Decimal256"} -> dt.tag
      [] dt.tag = "Utf8" -> "String"
      [] dt.tag = "LargeUtf8" -> "LargeString"
      [] dt.tag = "Timestamp" -> "Timestamp" \o dt.unit
      [] dt.tag = "Time32" -> "Time32" \o dt.unit
      [] dt.tag = "Time64" -> "Time64" \o dt.unit
      [] OTHER -> ""

\* The concrete Rust type of an array, as Any::downcast_ref sees it
ArrayClass(a) ==
    CASE a.dt.tag = "Null" -> [kind |-> "NullArray"]
      [] a.dt.tag = "Dictionary" -> [kind |-> "DictionaryArray", key |-> arrow_name(a.dt.key)]
      [] a.dt.tag = "List" -> [kind |-> "ListArray"]
      [] a.dt.tag = "Struct" -> [kind |-> "StructArray"]
      [] OTHER -> [kind |-> arrow_name(a.dt) \o "Array"]

\* The logical rows of an array: <<>> for a null row, <<v>> for a valid one,
\* v being the value, the decoded dictionary value, the rows of the list or
\* the tuple of the fields
RECURSIVE Logical(_)
Logical(a) ==
    CASE a.dt.tag = "Null" -> [k \in 1..a.len |-> <<>>]
      [] a.dt.tag = "Dictionary" ->
            [k \in 1..Len(a.keys) |->
                IF a.keys[k] = <<>> THEN <<>> ELSE a.values.rows[a.keys[k][1] + 1]]
      [] a.dt.tag = "List" ->
            [k \in 1..Len(a.valid) |->
                IF a.valid[k] THEN <<Logical(ListArray_value(a, k - 1))>> ELSE <<>>]
      [] a.dt.tag = "Struct" ->
            [k \in 1..Len(a.valid) |->
                IF a.valid[k]
                THEN <<[j \in 1..Len(a.columns) |-> Logical(a.columns[j])[k]]>>
                ELSE <<>>]
      [] OTHER -> a.rows

-----------------------------------------------------------------------------
(* The arrow builder operations the file calls *)

\* PrimitiveBuilder::append_value and the like
append_value(rows, v) == Append(rows, <<v>>)

\* PrimitiveBuilder::append_null and the like
append_null(rows) == Append(rows, <<>>)

\* NullBuilder::append
NullBuilder_append(t) == [t EXCEPT !.len = @ + 1]

\* NullBuilder::extend counting one row whatever len is
NullBuilder_extend_by_one(t, len) == [t EXCEPT !.len = @ + 1]

\* NullBuilder::extend
NullBuilder_extend(t, len) == [t EXCEPT !.len = @ + len]

\* ConfiguredDecimalBuilder::append_value
ConfiguredDecimalBuilder_append_value(t, v) == [t EXCEPT !.inner.rows = append_value(@, v)]

\* ConfiguredDecimalBuilder::append_null
ConfiguredDecimalBuilder_append_null(t) == [t EXCEPT !.inner.rows = append_null(@)]

\* K::Native::MAX of a dictionary key type; from_usize(n) is None above it.
\* The 32- and 64-bit unsigned and the 64-bit signed maxima are beyond the
\* rows any run here appends and are capped at the Int32 one.
KeyMax(keyarrowty) ==
    CASE keyarrowty = "Int8" -> 127
      [] keyarrowty = "UInt8" -> 255
      [] keyarrowty = "Int16" -> 32767
      [] keyarrowty = "UInt16" -> 65535
      [] OTHER -> 2147483647

\* PrimitiveDictionaryBuilder::append: Ok(key) or Err(DictionaryKeyOverflowError);
\* on Err nothing is appended
PrimitiveDictionaryBuilder_append(t, v) ==
    IF \E p \in 1..Len(t.values) : t.values[p] = v
    THEN [res |-> "Ok",
          t |-> [t EXCEPT !.keys = append_value(@, (CHOOSE p \in 1..Len(t.values) : t.values[p] = v) - 1)]]
    ELSE IF Len(t.values) > KeyMax(t.key)
         THEN [res |-> "Err", t |-> t]
         ELSE [res |-> "Ok",
               t |-> [t EXCEPT !.values = Append(@, v), !.keys = append_value(@, Len(t.values))]]

\* StringDictionaryBuilder::append: a new value is stored before its index is
\* converted to the key type; on Err the value stays stored but is not interned
\* and no key is appended
StringDictionaryBuilder_append(t, v) ==
    IF \E p \in t.dedup : t.values[p] = v
    THEN [res |-> "Ok",
          t |-> [t EXCEPT !.keys = append_value(@, (CHOOSE p \in t.dedup : t.values[p] = v) - 1)]]
    ELSE IF Len(t.values) > KeyMax(t.key)
         THEN [res |-> "Err", t |-> [t EXCEPT !.values = Append(@, v)]]
         ELSE [res |-> "Ok",
               t |-> [t EXCEPT !.values = Append(@, v),
                               !.dedup = @ \cup {Len(t.values) + 1},
                               !.keys = append_value(@, Len(t.values))]]

\* PrimitiveDictionaryBuilder::append_null / StringDictionaryBuilder::append_null
DictionaryBuilder_append_null(t) == [t EXCEPT !.keys = append_null(@)]

\* ListBuilder::append(is_valid): closes the row at the current child length
ListBuilder_append(t, valid) ==
    [t EXCEPT !.offsets = Append(@, builder_len(t.values)), !.valid = Append(@, valid)]

\* StructBuilder::append(is_valid) / StructBuilder::append_null
StructBuilder_append(t, valid) == [t EXCEPT !.valid = Append(@, valid)]

-----------------------------------------------------------------------------
(* builder_append_null *)

RECURSIVE builder_append_null(_, _)
RECURSIVE builder_extend(_, _, _, _)

\* the simple arms of the match of builder_append_null: the arrow name pasted
\* into the builder type, the empty string when no such arm matches
builder_append_null_match(data_type) ==
    CASE data_type.tag \in IntTags \cup {"Boolean", "Float32", "Float64", "Date32", "Date64",
                                          "Binary", "LargeBinary"} -> data_type.tag
      [] data_type.tag = "Timestamp" /\ data_type.unit \in TimeUnits -> "Timestamp" \o data_type.unit
      [] data_type.tag = "Time32" /\ data_type.unit \in {"Second", "Millisecond"} -> "Time32" \o data_type.unit
      [] data_type.tag = "Time64" /\ data_type.unit \in {"Microsecond", "Nanosecond"} -> "Time64" \o data_type.unit
      [] data_type.tag = "Utf8" -> "String"
      [] data_type.tag = "LargeUtf8" -> "LargeString"
      [] OTHER -> ""

\* macro append!(arrowty) of builder_append_null
append(to, arrowty, data_type) ==
    IF ConcreteType(to) # [kind |-> arrowty \o "Builder"] THEN DowncastPanic(data_type)
    ELSE IF arrowty \in {"ConfiguredDecimal128", "ConfiguredDecimal256"}
         THEN Ok(ConfiguredDecimalBuilder_append_null(to))
         ELSE Ok([to EXCEPT !.rows = append_null(@)])

\* append_null_for_list!(@match_type ...): the element builder name, the empty
\* string for the _ arm
append_null_for_list_match_type(elem) ==
    CASE elem.tag \in IntTags \cup {"Float32", "Float64", "Date32", "Date64", "Boolean",
                                     "Binary", "LargeBinary"} -> elem.tag
      [] elem.tag = "Utf8" -> "String"
      [] elem.tag = "LargeUtf8" -> "LargeString"
      [] elem.tag = "Timestamp" /\ elem.unit \in TimeUnits -> "Timestamp" \o elem.unit
      [] elem.tag = "Time32" /\ elem.unit \in {"Second", "Millisecond"} -> "Time32" \o elem.unit
      [] elem.tag = "Time64" /\ elem.unit \in {"Microsecond", "Nanosecond"} -> "Time64" \o elem.unit
      [] elem.tag = "Decimal128" -> "ConfiguredDecimal128"
      [] elem.tag = "Decimal256" -> "ConfiguredDecimal256"
      [] OTHER -> ""

\* append_null_for_list!
append_null_for_list(to, elem) ==
    IF append_null_for_list_match_type(elem) = ""
    THEN Unimplemented("list type not supported", elem)
    ELSE IF ConcreteType(to) # [kind |-> "ListBuilder",
                                elem |-> [kind |-> append_null_for_list_match_type(elem) \o "Builder"]]
         THEN DowncastPanic(List(elem))
         ELSE Ok(ListBuilder_append(to, FALSE))

\* append_null_for_struct!: the loop over the fields, from field j on; the
\* field builders are reached through the layout alias of StructBuilder, which
\* the build lays out like StructBuilder itself
RECURSIVE append_null_for_struct_fields(_, _, _)
append_null_for_struct_fields(t, fields, j) ==
    IF j > Len(fields) THEN Ok(t)
    ELSE IF j > Len(t.field_builders)
         THEN Panic("index", "index out of bounds", Struct(fields))
         ELSE LET r == builder_append_null(t.field_builders[j], fields[j])
              IN  IF r.ok
                  THEN append_null_for_struct_fields([t EXCEPT !.field_builders[j] = r.b], fields, j + 1)
                  ELSE r

\* append_null_for_struct marking the outer row null without appending a
\* null to the field builders
append_null_for_struct_outer_only(to, fields) ==
    IF ConcreteType(to) # [kind |-> "StructBuilder"] THEN DowncastPanic(Struct(fields))
    ELSE Ok(StructBuilder_append(to, FALSE))

\* append_null_for_struct!
append_null_for_struct(to, fields) ==
    IF ConcreteType(to) # [kind |-> "StructBuilder"] THEN DowncastPanic(Struct(fields))
    ELSE LET r == append_null_for_struct_fields(to, fields, 1)
         IN  IF r.ok THEN Ok(StructBuilder_append(r.b, FALSE)) ELSE r

builder_append_null(to, data_type) ==
    CASE data_type.tag = "Null" ->
            IF ConcreteType(to) # [kind |-> "NullBuilder"] THEN DowncastPanic(data_type)
            ELSE Ok(NullBuilder_append(to))
      [] builder_append_null_match(data_type) # "" ->
            append(to, builder_append_null_match(data_type), data_type)
      [] data_type.tag = "Decimal128" -> append(to, "ConfiguredDecimal128", data_type)
      [] data_type.tag = "Decimal256" -> append(to, "ConfiguredDecimal256", data_type)
      [] data_type.tag = "List" -> append_null_for_list(to, data_type.elem)
      [] data_type.tag = "Struct" -> append_null_for_struct(to, data_type.fields)
      [] OTHER -> Unimplemented("data type not supported in builder_append_null", data_type)

-----------------------------------------------------------------------------
(* builder_extend *)

\* the simple arms of the match of builder_extend: the arrow name pasted into
\* the builder and array types, the empty string when no such arm matches
builder_extend_match(data_type) ==
    CASE data_type.tag \in IntTags \cup {"Boolean", "Float32", "Float64", "Date32", "Date64",
                                          "Binary", "LargeBinary"} -> data_type.tag
      [] data_type.tag = "Timestamp" /\ data_type.unit \in TimeUnits -> "Timestamp" \o data_type.unit
      [] data_type.tag = "Time32" /\ data_type.unit \in {"Second", "Millisecond"} -> "Time32" \o data_type.unit
      [] data_type.tag = "Time64" /\ data_type.unit \in {"Microsecond", "Nanosecond"} -> "Time64" \o data_type.unit
      [] data_type.tag = "Utf8" -> "String"
      [] data_type.tag = "LargeUtf8" -> "LargeString"
      [] OTHER -> ""

\* append_simple_loop copying a slice: the k-th row appended is row k - 1 of
\* the source, whatever indices[k] is
RECURSIVE append_simple_loop_slice(_, _, _, _)
append_simple_loop_slice(rows, f, indices, k) ==
    IF k > Len(indices) THEN rows
    ELSE append_simple_loop_slice(IF is_valid(f, k - 1)
                                  THEN append_value(rows, array_value(f, k - 1))
                                  ELSE append_null(rows),
                                  f, indices, k + 1)

\* the for loop of append_simple!, from the k-th index on
RECURSIVE append_simple_loop(_, _, _, _)
append_simple_loop(rows, f, indices, k) ==
    IF k > Len(indices) THEN rows
    ELSE append_simple_loop(IF is_valid(f, indices[k])
                            THEN append_value(rows, array_value(f, indices[k]))
                            ELSE append_null(rows),
                            f, indices, k + 1)

\* append_simple! filling the builder from its first row on
append_simple_from_empty(b, array, indices, arrowty, data_type) ==
    IF ConcreteType(b) # [kind |-> arrowty \o "Builder"] THEN DowncastPanic(data_type)
    ELSE IF ArrayClass(array) # [kind |-> arrowty \o "Array"] THEN DowncastPanic(data_type)
    ELSE Ok([b EXCEPT !.rows = append_simple_loop(<<>>, array, indices, 1)])

\* append_simple!
append_simple(b, array, indices, arrowty, data_type) ==
    IF ConcreteType(b) # [kind |-> arrowty \o "Builder"] THEN DowncastPanic(data_type)
    ELSE IF ArrayClass(array) # [kind |-> arrowty \o "Array"] THEN DowncastPanic(data_type)
    ELSE Ok([b EXCEPT !.rows = append_simple_loop(@, array, indices, 1)])

\* the for loop of append_decimal!, from the k-th index on
RECURSIVE append_decimal_loop(_, _, _, _)
append_decimal_loop(t, f, indices, k) ==
    IF k > Len(indices) THEN t
    ELSE append_decimal_loop(IF is_valid(f, indices[k])
                             THEN ConfiguredDecimalBuilder_append_value(t, array_value(f, indices[k]))
                             ELSE ConfiguredDecimalBuilder_append_null(t),
                             f, indices, k + 1)

\* append_decimal!
append_decimal(b, array, indices, builderty, arrowty, data_type) ==
    IF ConcreteType(b) # [kind |-> builderty \o "Builder"] THEN DowncastPanic(data_type)
    ELSE IF ArrayClass(array) # [kind |-> arrowty \o "Array"] THEN DowncastPanic(data_type)
    ELSE Ok(append_decimal_loop(b, array, indices, 1))

\* append_dict!(@match_key ...): the arrow name of the key type, the empty
\* string for the _ arm
append_dict_match_key(key_type) ==
    IF key_type.tag \in IntTags THEN key_type.tag ELSE ""

\* append_dict!(@match_value ...): the arrow name of a primitive value type,
\* i32 / i64 for the two string widths, the empty string for the _ arm
append_dict_match_value(value_type) ==
    CASE value_type.tag \in IntTags \cup {"Float32", "Float64", "Date32", "Date64"} -> value_type.tag
      [] value_type.tag = "Timestamp" /\ value_type.unit = "Microsecond" -> "TimestampMicrosecond"
      [] value_type.tag = "Utf8" -> "i32"
      [] value_type.tag = "LargeUtf8" -> "i64"
      [] OTHER -> ""

\* one iteration of the for loop of append_dict!(@prim ...), for index i; the
\* Result of append is dropped (let _ =)
append_dict_prim_step(t, f, i) ==
    IF is_valid(f, i)
    THEN PrimitiveDictionaryBuilder_append(t, array_value(f.values, DictionaryArray_key(f, i))).t
    ELSE DictionaryBuilder_append_null(t)

\* the for loop of append_dict!(@prim ...) over indices[lo..hi], in order (the
\* range is halved, and the builder read before the loop goes on, to keep the
\* evaluation shallow on long index lists)
RECURSIVE append_dict_prim_loop(_, _, _, _, _)
append_dict_prim_loop(t, f, indices, lo, hi) ==
    IF lo > hi \/ t.kind = "none" THEN t
    ELSE IF lo = hi THEN append_dict_prim_step(t, f, indices[lo])
    ELSE append_dict_prim_loop(append_dict_prim_loop(t, f, indices, lo, (lo + hi) \div 2),
                               f, indices, ((lo + hi) \div 2) + 1, hi)

\* append_dict!(@prim ...)
append_dict_prim(b, array, indices, keyarrowty, valuearrowty, data_type) ==
    IF ConcreteType(b) # [kind |-> "PrimitiveDictionaryBuilder", key |-> keyarrowty, value |-> valuearrowty]
    THEN DowncastPanic(data_type)
    ELSE IF ArrayClass(array) # [kind |-> "DictionaryArray", key |-> keyarrowty]
    THEN DowncastPanic(data_type)
    ELSE IF ArrayClass(array.values) # [kind |-> valuearrowty \o "Array"]
    THEN DowncastPanic(data_type)
    ELSE Ok(append_dict_prim_loop(b, array, indices, 1, Len(indices)))

\* one iteration of the for loop of append_dict!(@str ...), for index i; the
\* Result of append is dropped (let _ =)
append_dict_str_step(t, f, i) ==
    IF is_valid(f, i)
    THEN StringDictionaryBuilder_append(t, array_value(f.values, DictionaryArray_key(f, i))).t
    ELSE DictionaryBuilder_append_null(t)

\* the for loop of append_dict!(@str ...) over indices[lo..hi], in order (the
\* range is halved, and the builder read before the loop goes on, to keep the
\* evaluation shallow on long index lists)
RECURSIVE append_dict_str_loop(_, _, _, _, _)
append_dict_str_loop(t, f, indices, lo, hi) ==
    IF lo > hi \/ t.kind = "none" THEN t
    ELSE IF lo = hi THEN append_dict_str_step(t, f, indices[lo])
    ELSE append_dict_str_loop(append_dict_str_loop(t, f, indices, lo, (lo + hi) \div 2),
                              f, indices, ((lo + hi) \div 2) + 1, hi)

\* append_dict!(@str ...): strsizety i32 is GenericStringArray<i32> = StringArray,
\* i64 is LargeStringArray
append_dict_str(b, array, indices, keyarrowty, strsizety, data_type) ==
    IF ConcreteType(b) # [kind |-> "StringDictionaryBuilder", key |-> keyarrowty, value |-> "String"]
    THEN DowncastPanic(data_type)
    ELSE IF ArrayClass(array) # [kind |-> "DictionaryArray", key |-> keyarrowty]
    THEN DowncastPanic(data_type)
    ELSE IF ArrayClass(array.values) #
            [kind |-> (IF strsizety = "i32" THEN "String" ELSE "LargeString") \o "Array"]
    THEN DowncastPanic(data_type)
    ELSE Ok(append_dict_str_loop(b, array, indices, 1, Len(indices)))

\* append_dict!: the unsupported-key message interpolates the value type
append_dict(b, array, indices, key_type, value_type) ==
    IF append_dict_match_key(key_type) = ""
    THEN Unimplemented("dictionary key type not supported", value_type)
    ELSE IF append_dict_match_value(value_type) = ""
    THEN Unimplemented("dictionary value type not supported", value_type)
    ELSE IF append_dict_match_value(value_type) \in {"i32", "i64"}
    THEN append_dict_str(b, array, indices, append_dict_match_key(key_type),
                         append_dict_match_value(value_type), Dictionary(key_type, value_type))
    ELSE append_dict_prim(b, array, indices, append_dict_match_key(key_type),
                          append_dict_match_value(value_type), Dictionary(key_type, value_type))

\* append_list!(@match_type ...): the element builder name, the empty string
\* for the _ arm
append_list_match_type(elem) ==
    CASE elem.tag \in IntTags \cup {"Float32", "Float64", "Date32", "Date64", "Boolean",
                                     "Binary", "LargeBinary"} -> elem.tag
      [] elem.tag = "Utf8" -> "String"
      [] elem.tag = "LargeUtf8" -> "LargeString"
      [] elem.tag = "Timestamp" /\ elem.unit \in TimeUnits -> "Timestamp" \o elem.unit
      [] elem.tag = "Time32" /\ elem.unit \in {"Second", "Millisecond"} -> "Time32" \o elem.unit
      [] elem.tag = "Time64" /\ elem.unit \in {"Microsecond", "Nanosecond"} -> "Time64" \o elem.unit
      [] elem.tag = "Decimal128" -> "ConfiguredDecimal128"
      [] elem.tag = "Decimal256" -> "ConfiguredDecimal256"
      [] OTHER -> ""

\* (0..len).collect::<Vec<_>>()
Range(len) == [k \in 1..len |-> k - 1]

\* append_list_loop copying the elements a null source row spans
RECURSIVE append_list_loop_copy_null(_, _, _, _)
append_list_loop_copy_null(t, f, indices, k) ==
    IF k > Len(indices) THEN Ok(t)
    ELSE LET v == ListArray_value(f, indices[k])
             r == builder_extend(t.values, v, Range(array_len(v)), v.dt)
         IN  IF r.ok
             THEN append_list_loop_copy_null(
                      ListBuilder_append([t EXCEPT !.values = r.b], is_valid(f, indices[k])),
                      f, indices, k + 1)
             ELSE r

\* the for loop of append_list!(@prim ...), from the k-th index on
RECURSIVE append_list_loop(_, _, _, _)
append_list_loop(t, f, indices, k) ==
    IF k > Len(indices) THEN Ok(t)
    ELSE IF is_valid(f, indices[k])
         THEN LET v == ListArray_value(f, indices[k])
                  r == builder_extend(t.values, v, Range(array_len(v)), v.dt)
              IN  IF r.ok
                  THEN append_list_loop(ListBuilder_append([t EXCEPT !.values = r.b], TRUE),
                                        f, indices, k + 1)
                  ELSE r
         ELSE append_list_loop(ListBuilder_append(t, FALSE), f, indices, k + 1)

\* append_list!
append_list(b, array, indices, elem) ==
    IF append_list_match_type(elem) = ""
    THEN Unimplemented("list type not supported", elem)
    ELSE IF ConcreteType(b) # [kind |-> "ListBuilder",
                               elem |-> [kind |-> append_list_match_type(elem) \o "Builder"]]
    THEN DowncastPanic(List(elem))
    ELSE IF ArrayClass(array) # [kind |-> "ListArray"] THEN DowncastPanic(List(elem))
    ELSE append_list_loop(b, array, indices, 1)

\* the loop over the fields of append_struct! for source row i, from field j
\* on; the field builders are reached through the layout alias of StructBuilder
RECURSIVE append_struct_fields(_, _, _, _, _)
append_struct_fields(t, f, i, fields, j) ==
    IF j > Len(fields) THEN Ok(t)
    ELSE IF j > Len(t.field_builders) \/ j > Len(f.columns)
         THEN Panic("index", "index out of bounds", Struct(fields))
         ELSE LET r == builder_extend(t.field_builders[j], f.columns[j], <<i>>, fields[j])
              IN  IF r.ok
                  THEN append_struct_fields([t EXCEPT !.field_builders[j] = r.b], f, i, fields, j + 1)
                  ELSE r

\* the for loop of append_struct!, from the k-th index on
RECURSIVE append_struct_loop(_, _, _, _, _)
append_struct_loop(t, f, indices, fields, k) ==
    IF k > Len(indices) THEN Ok(t)
    ELSE LET r == IF is_valid(f, indices[k])
                  THEN LET q == append_struct_fields(t, f, indices[k], fields, 1)
                       IN  IF q.ok THEN Ok(StructBuilder_append(q.b, TRUE)) ELSE q
                  ELSE builder_append_null(t, Struct(fields))
         IN  IF r.ok THEN append_struct_loop(r.b, f, indices, fields, k + 1) ELSE r

\* append_struct!
append_struct(b, array, indices, fields) ==
    IF ConcreteType(b) # [kind |-> "StructBuilder"] THEN DowncastPanic(Struct(fields))
    ELSE IF ArrayClass(array) # [kind |-> "StructArray"] THEN DowncastPanic(Struct(fields))
    ELSE append_struct_loop(b, array, indices, fields, 1)

builder_extend(b, array, indices, data_type) ==
    CASE data_type.tag = "Null" ->
            IF ConcreteType(b) # [kind |-> "NullBuilder"] THEN DowncastPanic(data_type)
            ELSE Ok(NullBuilder_extend(b, Len(indices)))
      [] builder_extend_match(data_type) # "" ->
            append_simple(b, array, indices, builder_extend_match(data_type), data_type)
      [] data_type.tag = "Decimal128" ->
            append_decimal(b, array, indices, "ConfiguredDecimal128", "Decimal128", data_type)
      [] data_type.tag = "Decimal256" ->
            append_decimal(b, array, indices, "ConfiguredDecimal256", "Decimal256", data_type)
      [] data_type.tag = "Dictionary" -> append_dict(b, array, indices, data_type.key, data_type.value)
      [] data_type.tag = "List" -> append_list(b, array, indices, data_type.elem)
      [] data_type.tag = "Struct" -> append_struct(b, array, indices, data_type.fields)
      [] OTHER -> Unimplemented("data type not supported in builder_extend", data_type)

-----------------------------------------------------------------------------
(* finish *)

\* T::DATA_TYPE of the arrow builder named arrowty: a timestamp builder
\* yields no zone, a plain decimal builder the default precision and scale
DATA_TYPE(arrowty) ==
    CASE arrowty = "String" -> Prim("Utf8")
      [] arrowty = "LargeString" -> Prim("LargeUtf8")
      [] arrowty = "TimestampSecond" -> Timestamp("Second")
      [] arrowty = "TimestampMillisecond" -> Timestamp("Millisecond")
      [] arrowty = "TimestampMicrosecond" -> Timestamp("Microsecond")
      [] arrowty = "TimestampNanosecond" -> Timestamp("Nanosecond")
      [] arrowty = "Time32Second" -> Time32("Second")
      [] arrowty = "Time32Millisecond" -> Time32("Millisecond")
      [] arrowty = "Time64Microsecond" -> Time64("Microsecond")
      [] arrowty = "Time64Nanosecond" -> Time64("Nanosecond")
      [] arrowty = "Decimal128" -> Decimal128(38, 10)
      [] arrowty = "Decimal256" -> Decimal256(76, 10)
      [] OTHER -> Prim(arrowty)

\* PrimitiveArray::with_precision_and_scale: it checks the precision and the
\* scale against the limits of the decimal width and never reads the values
with_precision_and_scale(a, width, precision, scale) ==
    IF /\ precision # 0
       /\ precision <= (IF width = "128" THEN 38 ELSE 76)
       /\ scale <= (IF width = "128" THEN 38 ELSE 76)
       /\ (scale > 0 => scale <= precision)
    THEN [res |-> "Ok",
          a |-> [a EXCEPT !.dt = IF width = "128" THEN Decimal128(precision, scale)
                                 ELSE Decimal256(precision, scale)]]
    ELSE [res |-> "Err", a |-> a]

\* ConfiguredDecimalBuilder::finish
ConfiguredDecimalBuilder_finish(b) ==
    LET width == IF b.kind = "ConfiguredDecimal128Builder" THEN "128" ELSE "256"
        r == with_precision_and_scale(LeafArray(DATA_TYPE(b.inner.arrowty), b.inner.rows),
                                      width, b.precision, b.scale)
    IN  IF r.res = "Ok" THEN Ok(r.a)
        ELSE Panic("unwrap", "called Result::unwrap() on an Err value: InvalidArgumentError",
                   IF width = "128" THEN Decimal128(b.precision, b.scale)
                   ELSE Decimal256(b.precision, b.scale))

\* NullBuilder::finish
NullBuilder_finish(b) == Ok(NullArray_new(b.len))

\* ArrayBuilder::finish, dispatched on the concrete builder
RECURSIVE finish(_)
RECURSIVE finish_fields(_, _, _)
finish(b) ==
    CASE b.kind = "NullBuilder" -> NullBuilder_finish(b)
      [] b.kind \in {"ConfiguredDecimal128Builder", "ConfiguredDecimal256Builder"} ->
            ConfiguredDecimalBuilder_finish(b)
      [] b.kind = "PrimitiveDictionaryBuilder" ->
            Ok(DictionaryArray(Dictionary(Prim(b.key), DATA_TYPE(b.value)), b.keys,
                               LeafArray(DATA_TYPE(b.value),
                                         [k \in 1..Len(b.values) |-> <<b.values[k]>>])))
      [] b.kind = "StringDictionaryBuilder" ->
            Ok(DictionaryArray(Dictionary(Prim(b.key), Prim("Utf8")), b.keys,
                               LeafArray(Prim("Utf8"),
                                         [k \in 1..Len(b.values) |-> <<b.values[k]>>])))
      [] b.kind = "ListBuilder" ->
            LET r == finish(b.values)
            IN  IF r.ok THEN Ok(ListArray(List(r.b.dt), b.valid, b.offsets, r.b)) ELSE r
      [] b.kind = "StructBuilder" ->
            IF \E j \in 1..Len(b.field_builders) : builder_len(b.field_builders[j]) # Len(b.valid)
            THEN Panic("panic", "StructBuilder and field_builders are of unequal lengths.",
                       Struct(b.fields))
            ELSE finish_fields(b, 1, <<>>)
      [] OTHER -> Ok(LeafArray(DATA_TYPE(b.arrowty), b.rows))

finish_fields(b, j, acc) ==
    IF j > Len(b.field_builders) THEN Ok(StructArray(Struct(b.fields), b.valid, acc))
    ELSE LET r == finish(b.field_builders[j])
         IN  IF r.ok THEN finish_fields(b, j + 1, Append(acc, r.b)) ELSE r

-----------------------------------------------------------------------------
(* new_array_builders and make_batch *)

\* new_array_builders: one builder per field of the schema, in order
RECURSIVE new_array_builders_from(_, _, _)
new_array_builders_from(fields, j, acc) ==
    IF j > Len(fields) THEN Ok(acc)
    ELSE LET r == new_array_builder(fields[j])
         IN  IF r.ok THEN new_array_builders_from(fields, j + 1, Append(acc, r.b)) ELSE r

new_array_builders(fields) == new_array_builders_from(fields, 1, <<>>)

\* RecordBatch::try_new accepting columns of differing lengths
RecordBatch_try_new_any_length(fields, columns) ==
    IF Len(fields) # Len(columns) \/ Len(columns) = 0
    THEN [res |-> "Err", columns |-> <<>>]
    ELSE IF \E j \in 1..Len(columns) : columns[j].dt # fields[j]
    THEN [res |-> "Err", columns |-> <<>>]
    ELSE [res |-> "Ok", columns |-> columns]

\* RecordBatch::try_new for a schema of nullable fields: as many columns as
\* fields, every column of the type of its field, every column as long as the
\* first one
RecordBatch_try_new(fields, columns) ==
    IF Len(fields) # Len(columns) \/ Len(columns) = 0
    THEN [res |-> "Err", columns |-> <<>>]
    ELSE IF \E j \in 1..Len(columns) : columns[j].dt # fields[j]
    THEN [res |-> "Err", columns |-> <<>>]
    ELSE IF \E j \in 1..Len(columns) : array_len(columns[j]) # array_len(columns[1])
    THEN [res |-> "Err", columns |-> <<>>]
    ELSE [res |-> "Ok", columns |-> columns]

\* arrays.iter_mut().map(|array| array.finish()).collect(), from builder j on
RECURSIVE make_batch_columns(_, _, _)
make_batch_columns(builders, j, acc) ==
    IF j > Len(builders) THEN Ok(acc)
    ELSE LET r == finish(builders[j])
         IN  IF r.ok THEN make_batch_columns(builders, j + 1, Append(acc, r.b)) ELSE r

\* make_batch: a panic of a finish, or the ArrowResult of RecordBatch::try_new
make_batch(fields, builders) ==
    LET r == make_batch_columns(builders, 1, <<>>)
    IN  IF r.ok THEN Ok(RecordBatch_try_new(fields, r.b)) ELSE r

-----------------------------------------------------------------------------
(* Inputs: the descriptors, the source arrays and the index lists explored *)

Int32 == Prim("Int32")

Utf8 == Prim("Utf8")

Int8 == Prim("Int8")

\* The descriptors a builder is created for
DataTypes ==
    { Null, Int32, Utf8, Prim("Float16"),
      Decimal128(5, 2), Decimal128(39, 0),
      Dictionary(Int8, Int32), Dictionary(Int8, Utf8), Dictionary(Int8, Prim("LargeUtf8")),
      Dictionary(Utf8, Int32), Dictionary(Int8, Prim("Boolean")),
      List(Int32), List(Timestamp("Microsecond")), List(Timestamp("Second")),
      List(Decimal128(5, 2)), List(List(Int32)), List(Struct(<<Int32>>)),
      Struct(<<Int32, Utf8>>), Struct(<<Int32, Decimal128(5, 2)>>), Struct(<<Null>>),
      Struct(<<List(Int32)>>), Struct(<<Struct(<<Int32, Utf8>>)>>),
      Struct(<<Dictionary(Int8, Utf8)>>) }

\* The schemas a builder set is created for
Schemas ==
    { <<Int32, Utf8>>, <<Int32, Decimal128(39, 0)>>, <<Decimal128(5, 2), Int32>>,
      <<Dictionary(Int8, Utf8)>>, <<Dictionary(Int8, Prim("LargeUtf8"))>>,
      <<Dictionary(Utf8, Int32)>>, <<Dictionary(Int8, Prim("Boolean"))>>,
      <<Struct(<<Int32, Utf8>>), Null>> }

\* Two source arrays of three rows per descriptor. Variant 1 of a leaf holds (1, null, 3),
\* a decimal array holds values inside and outside five digits, a dictionary
\* array of variant 2 holds a value twice in its dictionary, a list array has
\* a null row that spans an element and a valid empty row, the columns of a
\* struct array alternate between the variants.
RECURSIVE Sample(_, _)
Sample(dt, n) ==
    CASE dt.tag = "Null" -> NullArray_new(3)
      [] dt.tag \in {"Decimal128", "Decimal256"} ->
            LeafArray(dt, IF n = 1 THEN << <<12345>>, <<>>, <<1234567>> >>
                          ELSE << <<99999>>, <<-99999>>, <<>> >>)
      [] dt.tag = "Dictionary" ->
            IF n = 1
            THEN DictionaryArray(dt, << <<0>>, <<>>, <<1>> >>,
                                 LeafArray(dt.value, << <<10>>, <<20>> >>))
            ELSE DictionaryArray(dt, << <<2>>, <<1>>, <<0>> >>,
                                 LeafArray(dt.value, << <<20>>, <<30>>, <<20>> >>))
      [] dt.tag = "List" ->
            IF n = 1
            THEN ListArray(dt, <<TRUE, FALSE, TRUE>>, <<0, 2, 3, 3>>, Sample(dt.elem, n))
            ELSE ListArray(dt, <<TRUE, TRUE, FALSE>>, <<0, 1, 3, 3>>, Sample(dt.elem, n))
      [] dt.tag = "Struct" ->
            StructArray(dt, IF n = 1 THEN <<TRUE, FALSE, TRUE>> ELSE <<FALSE, TRUE, TRUE>>,
                        [j \in 1..Len(dt.fields) |-> Sample(dt.fields[j], ((n + j) % 2) + 1)])
      [] OTHER ->
            LeafArray(dt, IF n = 1 THEN << <<1>>, <<>>, <<3>> >>
                          ELSE << <<3>>, <<7>>, <<>> >>)

\* A dictionary array that addresses as many distinct values as an Int8 key can
WideSample(dt) ==
    DictionaryArray(dt, [k \in 1..(KeyMax("Int8") + 1) |-> <<k - 1>>],
                    LeafArray(dt.value, [k \in 1..(KeyMax("Int8") + 1) |-> <<1000 + k>>]))

HasWideSample(dt) == dt.tag = "Dictionary" /\ dt.key = Int8

\* no array carries a decimal type whose precision or scale is out of range
RECURSIVE ArrayTypeExists(_)
ArrayTypeExists(dt) ==
    CASE dt.tag \in {"Decimal128", "Decimal256"} ->
            with_precision_and_scale(LeafArray(dt, <<>>), IF dt.tag = "Decimal128" THEN "128" ELSE "256",
                                     dt.precision, dt.scale).res = "Ok"
      [] dt.tag = "List" -> ArrayTypeExists(dt.elem)
      [] dt.tag = "Struct" -> \A j \in 1..Len(dt.fields) : ArrayTypeExists(dt.fields[j])
      [] OTHER -> TRUE

SourceArrays(dt) == IF ArrayTypeExists(dt) THEN {Sample(dt, 1), Sample(dt, 2)} ELSE {}

\* The index lists over an array of len rows: every list of at most MaxIdx
\* indices, and the identity range
IndexSeqs(len) ==
    UNION {[1..m -> 0..(len - 1)] : m \in 0..MaxIdx} \cup {Range(len)}

\* The index lists of the call that follows the calls in h: every list for the
\* first two calls, the lists of at most one index after them
CallIndexSeqs(len, h) ==
    IF Len(h) < 2 THEN IndexSeqs(len) ELSE {s \in IndexSeqs(len) : Len(s) <= 1}

NoArray == NullArray_new(0)

NoBatch == [res |-> "none", columns |-> <<>>]

Call(op, col, src, idx) == [op |-> op, col |-> col, src |-> src, idx |-> idx]

-----------------------------------------------------------------------------
(* One builder: new_array_builder, builder_extend, builder_append_null, finish *)

Init ==
    /\ col_type \in DataTypes
    /\ builder = NoBuilder
    /\ finished = NoArray
    /\ phase = "init"
    /\ failure = NoFailure
    /\ history = <<>>
    /\ schema = <<>>
    /\ arrays = <<>>
    /\ batch = NoBatch

\* the effect of a call on the builder: its new state, or the panic
Outcome(r, call) ==
    /\ history' = Append(history, call)
    /\ IF r.ok
       THEN builder' = r.b /\ phase' = "building" /\ failure' = NoFailure
       ELSE builder' = NoBuilder /\ phase' = "failed" /\ failure' = FailureAt(call.op, r.err)
    /\ UNCHANGED <<col_type, finished, schema, arrays, batch>>

NewArrayBuilder ==
    /\ phase = "init"
    /\ LET r == new_array_builder(col_type)
       IN  IF r.ok
           THEN builder' = r.b /\ phase' = "building" /\ failure' = NoFailure
           ELSE builder' = NoBuilder /\ phase' = "failed"
                /\ failure' = FailureAt("new_array_builder", r.err)
    /\ UNCHANGED <<col_type, finished, history, schema, arrays, batch>>

BuilderExtend ==
    /\ phase = "building"
    /\ Len(history) < MaxOps
    /\ \E src \in SourceArrays(col_type) : \E idx \in CallIndexSeqs(array_len(src), history) :
          Outcome(builder_extend(builder, src, idx, col_type), Call("builder_extend", 1, src, idx))

\* the gather of a whole array of 128 distinct values into a fresh builder
BuilderExtendWide ==
    /\ phase = "building"
    /\ history = <<>>
    /\ HasWideSample(col_type)
    /\ LET src == WideSample(col_type)
           idx == Range(array_len(src))
       IN  Outcome(builder_extend(builder, src, idx, col_type), Call("builder_extend", 1, src, idx))

BuilderAppendNull ==
    /\ phase = "building"
    /\ Len(history) < MaxOps
    /\ Outcome(builder_append_null(builder, col_type), Call("builder_append_null", 1, NoArray, <<>>))

Finish ==
    /\ phase = "building"
    /\ LET r == finish(builder)
       IN  IF r.ok
           THEN finished' = r.b /\ phase' = "finished" /\ failure' = NoFailure
           ELSE finished' = NoArray /\ phase' = "failed" /\ failure' = FailureAt("finish", r.err)
    /\ builder' = NoBuilder
    /\ UNCHANGED <<col_type, history, schema, arrays, batch>>

Next == NewArrayBuilder \/ BuilderExtend \/ BuilderExtendWide \/ BuilderAppendNull \/ Finish

Spec == Init /\ [][Next]_vars

-----------------------------------------------------------------------------
(* A builder set: new_array_builders, the calls on its builders, make_batch *)

BatchInit ==
    /\ schema \in Schemas
    /\ arrays = <<>>
    /\ batch = NoBatch
    /\ phase = "init"
    /\ failure = NoFailure
    /\ history = <<>>
    /\ col_type = Null
    /\ builder = NoBuilder
    /\ finished = NoArray

\* the effect of a call on builder c of the set: its new state, or the panic
BatchOutcome(r, c, call) ==
    /\ history' = Append(history, call)
    /\ IF r.ok
       THEN arrays' = [arrays EXCEPT ![c] = r.b] /\ phase' = "building" /\ failure' = NoFailure
       ELSE arrays' = <<>> /\ phase' = "failed" /\ failure' = FailureAt(call.op, r.err)
    /\ UNCHANGED <<schema, batch, col_type, builder, finished>>

NewArrayBuilders ==
    /\ phase = "init"
    /\ LET r == new_array_builders(schema)
       IN  IF r.ok
           THEN arrays' = r.b /\ phase' = "building" /\ failure' = NoFailure
           ELSE arrays' = <<>> /\ phase' = "failed"
                /\ failure' = FailureAt("new_array_builder", r.err)
    /\ UNCHANGED <<schema, batch, history, col_type, builder, finished>>

BatchExtend ==
    /\ phase = "building"
    /\ Len(history) < MaxOps
    /\ \E c \in 1..Len(schema) :
          \E src \in SourceArrays(schema[c]) \cap {Sample(schema[c], 1)} :
             \E idx \in IndexSeqs(array_len(src)) :
                BatchOutcome(builder_extend(arrays[c], src, idx, schema[c]), c,
                             Call("builder_extend", c, src, idx))

BatchAppendNull ==
    /\ phase = "building"
    /\ Len(history) < MaxOps
    /\ \E c \in 1..Len(schema) :
          BatchOutcome(builder_append_null(arrays[c], schema[c]), c,
                       Call("builder_append_null", c, NoArray, <<>>))

MakeBatch ==
    /\ phase = "building"
    /\ LET r == make_batch(schema, arrays)
       IN  IF r.ok
           THEN batch' = r.b /\ phase' = "finished" /\ failure' = NoFailure
           ELSE batch' = NoBatch /\ phase' = "failed" /\ failure' = FailureAt("make_batch", r.err)
    /\ arrays' = <<>>
    /\ UNCHANGED <<schema, history, col_type, builder, finished>>

BatchNext == NewArrayBuilders \/ BatchExtend \/ BatchAppendNull \/ MakeBatch

BatchSpec == BatchInit /\ [][BatchNext]_vars

-----------------------------------------------------------------------------
(* One builder called with a descriptor of the caller's choice: the data_type
   argument of builder_extend and builder_append_null need not be the
   descriptor the builder was made for, nor the type of the source array *)

\* DataType::Timestamp(unit, Some(zone))
TimestampTz(unit, zone) == [tag |-> "Timestamp", unit |-> unit, zone |-> zone]

\* The descriptors passed as data_type
CallTypes ==
    { Null, Int32, Utf8, Prim("Float16"),
      Timestamp("Microsecond"), TimestampTz("Microsecond", "UTC"),
      Decimal128(5, 2), Decimal128(7, 3),
      Dictionary(Int8, Int32), Dictionary(Int8, Utf8), Dictionary(Int8, Prim("LargeUtf8")),
      Dictionary(Utf8, Int32), Dictionary(Int8, Prim("Boolean")),
      List(Int32), List(Prim("Float16")),
      Struct(<<Int32, Utf8>>), Struct(<<Int32>>) }

\* The descriptors a builder is created for
BuilderTypes == DataTypes \cup {Timestamp("Microsecond"), Decimal128(7, 3), Struct(<<Int32>>)}

\* the descriptors an arrow array can carry: a dictionary array has an integer
\* key type
HasArrays(dt) ==
    /\ ArrayTypeExists(dt)
    /\ dt.tag = "Dictionary" => dt.key.tag \in IntTags

\* the source arrays offered to a call: of the type of the builder or of the
\* descriptor passed
DispatchSources(dt) ==
    UNION {SourceArrays(t) : t \in {u \in {col_type, dt} : HasArrays(u)}}

CallAs(op, data_type, src, idx) ==
    [op |-> op, col |-> 1, src |-> src, idx |-> idx, data_type |-> data_type]

DispatchInit ==
    /\ col_type \in BuilderTypes
    /\ builder = NoBuilder
    /\ finished = NoArray
    /\ phase = "init"
    /\ failure = NoFailure
    /\ history = <<>>
    /\ schema = <<>>
    /\ arrays = <<>>
    /\ batch = NoBatch

DispatchNewArrayBuilder ==
    /\ phase = "init"
    /\ LET r == new_array_builder(col_type)
       IN  IF r.ok
           THEN builder' = r.b /\ phase' = "building" /\ failure' = NoFailure
           ELSE builder' = NoBuilder /\ phase' = "failed"
                /\ failure' = FailureAt("new_array_builder", r.err)
    /\ UNCHANGED <<col_type, finished, history, schema, arrays, batch>>

DispatchExtend ==
    /\ phase = "building"
    /\ history = <<>>
    /\ \E dt \in CallTypes : \E src \in DispatchSources(dt) :
          \E idx \in IndexSeqs(array_len(src)) :
             Outcome(builder_extend(builder, src, idx, dt), CallAs("builder_extend", dt, src, idx))

DispatchAppendNull ==
    /\ phase = "building"
    /\ history = <<>>
    /\ \E dt \in CallTypes :
          Outcome(builder_append_null(builder, dt), CallAs("builder_append_null", dt, NoArray, <<>>))

DispatchFinish ==
    /\ phase = "building"
    /\ LET r == finish(builder)
       IN  IF r.ok
           THEN finished' = r.b /\ phase' = "finished" /\ failure' = NoFailure
           ELSE finished' = NoArray /\ phase' = "failed" /\ failure' = FailureAt("finish", r.err)
    /\ builder' = NoBuilder
    /\ UNCHANGED <<col_type, history, schema, arrays, batch>>

DispatchNext == DispatchNewArrayBuilder \/ DispatchExtend \/ DispatchAppendNull \/ DispatchFinish

DispatchSpec == DispatchInit /\ [][DispatchNext]_vars

TypeOK == phase \in {"init", "building", "finished", "failed"}

-----------------------------------------------------------------------------
(* Properties *)

\* the calls made on the one builder are exactly one builder_extend
OneExtend == Len(history) = 1 /\ history[1].op = "builder_extend"

RECURSIVE RequestedRows(_)
RequestedRows(h) ==
    IF h = <<>> THEN 0
    ELSE (IF Head(h).op = "builder_extend" THEN Len(Head(h).idx) ELSE 1) + RequestedRows(Tail(h))

\* C2 (row-count invariant): after any sequence of builder_extend and
\* builder_append_null calls the builder holds as many rows as the calls asked
\* for, dictionary builders with an Int8 key that receive more distinct values
\* than the key addresses included.
C2_RowCount == phase = "building" => builder_len(builder) = RequestedRows(history)

\* the descriptors the specification lists as supported: its leaf types,
\* decimals an array can carry, dictionaries with an integer key and a
\* numeric, date, microsecond timestamp or string value, lists and structs of
\* supported types, nested at will
RECURSIVE SpecSupported(_)
SpecSupported(dt) ==
    CASE dt.tag \in {"Decimal128", "Decimal256"} -> ArrayTypeExists(dt)
      [] dt.tag = "Dictionary" ->
            /\ dt.key.tag \in IntTags
            /\ \/ dt.value.tag \in IntTags \cup {"Float32", "Float64", "Date32", "Date64",
                                                  "Utf8", "LargeUtf8"}
               \/ dt.value = Timestamp("Microsecond")
      [] dt.tag = "List" -> SpecSupported(dt.elem)
      [] dt.tag = "Struct" -> \A j \in 1..Len(dt.fields) : SpecSupported(dt.fields[j])
      [] dt.tag \in {"Timestamp", "Time32", "Time64"} -> dt.unit \in TimeUnits
      [] OTHER -> dt.tag \in IntTags \cup {"Null", "Boolean", "Float32", "Float64", "Date32",
                                           "Date64", "Binary", "LargeBinary", "Utf8", "LargeUtf8"}

\* the calls made on the one builder are at most one builder_extend, with the
\* identity index range of its source
RoundTripRun ==
    \/ history = <<>> /\ failure.at # "finish"
    \/ OneExtend /\ history[1].idx = Range(array_len(history[1].src))

\* C3 (round trip): for every supported descriptor, nested list-of-struct and
\* struct-of-list included, the factory makes a builder, builder_extend with
\* the identity range of a source array and finish complete, and the finished
\* array equals the source in values and validity.
C3_RoundTrip ==
    (SpecSupported(col_type) /\ RoundTripRun) =>
        /\ phase # "failed"
        /\ phase = "finished" => Logical(finished) = Logical(history[1].src)

\* row k of builder b is null
BuilderRowIsNull(b, k) ==
    CASE b.kind = "NullBuilder" -> TRUE
      [] b.kind \in {"ConfiguredDecimal128Builder", "ConfiguredDecimal256Builder"} -> b.inner.rows[k] = <<>>
      [] b.kind \in {"PrimitiveDictionaryBuilder", "StringDictionaryBuilder"} -> b.keys[k] = <<>>
      [] b.kind \in {"ListBuilder", "StructBuilder"} -> ~b.valid[k]
      [] OTHER -> b.rows[k] = <<>>

\* every field builder of a struct builder, at every depth, has as many rows
\* as the struct builder, and holds a null row wherever the struct row is null
RECURSIVE StructAligned(_)
StructAligned(b) ==
    b.kind = "StructBuilder" =>
        \A j \in 1..Len(b.field_builders) :
            /\ builder_len(b.field_builders[j]) = Len(b.valid)
            /\ \A k \in 1..Len(b.valid) : ~b.valid[k] => BuilderRowIsNull(b.field_builders[j], k)
            /\ StructAligned(b.field_builders[j])

\* a step that is a completed builder_append_null on the one builder
AppendNullStep ==
    /\ phase = "building" /\ phase' = "building"
    /\ history' = Append(history, Call("builder_append_null", 1, NoArray, <<>>))

\* C4 (struct row alignment): after every completed builder_extend or
\* builder_append_null on a struct builder each field builder has exactly the
\* rows of the struct builder; a builder_append_null adds one row to every
\* field builder, that row is null, and the struct gets one unset validity bit.
C4_StructRowAlignment ==
    [][(phase' = "building" /\ builder'.kind = "StructBuilder") =>
          /\ StructAligned(builder')
          /\ AppendNullStep =>
                /\ builder'.valid = Append(builder.valid, FALSE)
                /\ \A j \in 1..Len(builder'.field_builders) :
                      /\ builder_len(builder'.field_builders[j]) =
                            builder_len(builder.field_builders[j]) + 1
                      /\ BuilderRowIsNull(builder'.field_builders[j], Len(builder'.valid))]_vars

\* C4 witness: a struct builder of fields (Int32, Utf8) after one
\* builder_append_null and the gather of one valid row
C4_Witness ==
    /\ phase = "building"
    /\ col_type = Struct(<<Int32, Utf8>>)
    /\ Len(history) = 2 /\ history[1].op = "builder_append_null"
    /\ builder.valid = <<FALSE, TRUE>>
    /\ builder_len(builder.field_builders[1]) = 2
    /\ builder_len(builder.field_builders[2]) = 2

\* the descriptors of C5: a leaf, decimal or dictionary type for which the
\* factory made a builder
IsLeafDecimalOrDictionary(dt) == dt.tag \notin {"Null", "List", "Struct"}

\* C5 (null append on leaf, decimal and dictionary builders):
\* builder_append_null on a builder the factory made for a primitive, string,
\* binary, decimal or dictionary descriptor completes, adds exactly one row,
\* and that row is null.
C5_AppendNullLeaf ==
    [][(/\ phase = "building"
        /\ IsLeafDecimalOrDictionary(col_type)
        /\ history' = Append(history, Call("builder_append_null", 1, NoArray, <<>>))) =>
          /\ phase' = "building"
          /\ builder_len(builder') = builder_len(builder) + 1
          /\ BuilderRowIsNull(builder', builder_len(builder'))]_vars

\* C6 (list factory): for List(elem) with any supported element type the
\* factory returns a list builder whose child builder is the one
\* builder_extend and builder_append_null downcast to, and the factory accepts
\* List(elem) exactly when builder_extend and builder_append_null do.
C6_ListFactoryAgrees ==
    (col_type.tag = "List" /\ phase # "init") =>
        /\ SpecSupported(col_type.elem) => failure.at # "new_array_builder"
        /\ failure.at # "new_array_builder" <=> append_list_match_type(col_type.elem) # ""
        /\ failure.at # "new_array_builder" <=> append_null_for_list_match_type(col_type.elem) # ""
        /\ phase = "building" =>
              ConcreteType(builder) =
                 [kind |-> "ListBuilder",
                  elem |-> [kind |-> append_list_match_type(col_type.elem) \o "Builder"]]

\* C7 (struct factory): for Struct(fields) the factory builds child builder j,
\* in field order, as the builder the factory itself returns for the type of
\* field j, so that no call on the struct builder fails for fields that are
\* supported at top level.
C7_StructChildrenFromFactory ==
    (col_type.tag = "Struct" /\ SpecSupported(col_type) /\ phase # "init") =>
        /\ phase # "failed"
        /\ phase = "building" =>
              /\ Len(builder.field_builders) = Len(col_type.fields)
              /\ \A j \in 1..Len(col_type.fields) :
                    /\ new_array_builder(col_type.fields[j]).ok
                    /\ ConcreteType(builder.field_builders[j]) =
                          ConcreteType(new_array_builder(col_type.fields[j]).b)

\* C8 (dictionary factory): for a supported Dictionary(k, v) the finished
\* column has the logical type Dictionary(k, v) and make_batch accepts it
\* under a schema declaring Dictionary(k, v), for v = Utf8 and v = LargeUtf8
\* alike; outside the supported cross-product the factory fails with an
\* unsupported-type failure.
C8_DictionaryType ==
    \A c \in 1..Len(schema) :
        schema[c].tag = "Dictionary" =>
            /\ (SpecSupported(schema[c]) /\ phase = "finished") =>
                  /\ batch.res = "Ok"
                  /\ batch.columns[c].dt = schema[c]
            /\ (~SpecSupported(schema[c]) /\ phase # "init") =>
                  /\ phase = "failed"
                  /\ failure.at = "new_array_builder"
                  /\ failure.kind = "unimplemented"

\* 10 to the power of n
Pow10(n) == 10 ^ n

\* some value stored in decimal builder b needs more digits than its precision
HasOverflow(b) ==
    \E k \in 1..Len(b.inner.rows) :
        /\ b.inner.rows[k] # <<>>
        /\ \/ b.inner.rows[k][1] >= Pow10(b.precision)
           \/ b.inner.rows[k][1] <= -Pow10(b.precision)

\* a step that is a builder_extend call on the one builder
ExtendStep ==
    /\ phase = "building"
    /\ Len(history') = Len(history) + 1
    /\ history'[Len(history')].op = "builder_extend"

\* a step that is the finish of the one builder
FinishStep == phase = "building" /\ history' = history /\ phase' # "building"

\* C9 (decimal overflow): builder_extend copies any decimal value into a
\* Decimal(p, s) builder without failing; finish fails exactly when a stored
\* value needs more than p digits, and otherwise yields an array of type
\* Decimal(p, s).
C9_DecimalOverflowAtFinish ==
    [][(col_type.tag = "Decimal128" /\ ArrayTypeExists(col_type)) =>
          /\ ExtendStep => phase' = "building"
          /\ FinishStep =>
                /\ HasOverflow(builder) <=> phase' = "failed"
                /\ phase' = "finished" => finished'.dt = col_type]_vars

\* a step that is make_batch on the builder set
MakeBatchStep == phase = "building" /\ history' = history /\ phase' # "building"

\* C10 (make_batch is all or nothing): make_batch returns a batch whose
\* column i is the finished array of builder i, all columns equally long, or
\* it returns no batch; it returns no batch whenever a finish fails.
C10_MakeBatchAllOrNothing ==
    [][MakeBatchStep =>
          /\ \/ /\ phase' = "finished" /\ batch'.res = "Ok"
                /\ Len(batch'.columns) = Len(schema)
                /\ \A i \in 1..Len(schema) :
                      /\ finish(arrays[i]).ok
                      /\ batch'.columns[i] = finish(arrays[i]).b
                      /\ array_len(batch'.columns[i]) = array_len(batch'.columns[1])
             \/ /\ phase' = "failed" \/ batch'.res = "Err"
                /\ batch'.columns = <<>>
          /\ (\E i \in 1..Len(arrays) : ~finish(arrays[i]).ok) => phase' = "failed"]_vars

\* C10 witness: a batch of two columns of one row each
C10_Witness ==
    /\ phase = "finished"
    /\ batch.res = "Ok"
    /\ Len(batch.columns) = 2
    /\ array_len(batch.columns[1]) = 1
    /\ array_len(batch.columns[2]) = 1

\* every call made on the one builder is a builder_extend
OnlyExtends == \A k \in 1..Len(history) : history[k].op = "builder_extend"

\* C11 (dictionary deduplication): after any sequence of builder_extend calls
\* on a dictionary builder, from whatever source dictionaries, the value
\* dictionary of the finished array holds no value twice, and two valid rows
\* of equal decoded value carry the same key.
C11_DictionaryDedup ==
    (phase = "finished" /\ finished.dt.tag = "Dictionary" /\ OnlyExtends) =>
        /\ \A p, q \in 1..Len(finished.values.rows) :
              finished.values.rows[p] = finished.values.rows[q] => p = q
        /\ \A j, k \in 1..Len(finished.keys) :
              (/\ finished.keys[j] # <<>>
               /\ finished.keys[k] # <<>>
               /\ Logical(finished)[j] = Logical(finished)[k]) =>
                  finished.keys[j] = finished.keys[k]

\* the closed set of descriptors of the specification, whatever the
\* precision and the scale of a decimal
RECURSIVE InClosedSet(_)
InClosedSet(dt) ==
    CASE dt.tag \in {"Decimal128", "Decimal256"} -> TRUE
      [] dt.tag = "List" -> InClosedSet(dt.elem)
      [] dt.tag = "Struct" -> \A j \in 1..Len(dt.fields) : InClosedSet(dt.fields[j])
      [] OTHER -> SpecSupported(dt)

\* the type that puts dt outside the closed set: the key type of a dictionary
\* with an unsupported key, else its value type, the offending type of a list
\* element or of the first such field, else dt itself
RECURSIVE Offending(_)
Offending(dt) ==
    CASE dt.tag = "Dictionary" -> IF dt.key.tag \notin IntTags THEN dt.key ELSE dt.value
      [] dt.tag = "List" -> Offending(dt.elem)
      [] dt.tag = "Struct" ->
            Offending(dt.fields[CHOOSE j \in 1..Len(dt.fields) :
                                   /\ ~InClosedSet(dt.fields[j])
                                   /\ \A i \in 1..(j - 1) : InClosedSet(dt.fields[i])])
      [] OTHER -> dt

\* the descriptor shown is t or has t as a component
RECURSIVE Names(_, _)
Names(shown, t) ==
    \/ shown = t
    \/ shown.tag = "Dictionary" /\ (Names(shown.key, t) \/ Names(shown.value, t))
    \/ shown.tag = "List" /\ Names(shown.elem, t)
    \/ shown.tag = "Struct" /\ \E j \in 1..Len(shown.fields) : Names(shown.fields[j], t)

\* the failure is a refusal of a type (unimplemented! in this file, the panic
\* of arrow make_builder) that shows the type that puts dt outside the closed set
UnsupportedTypeFailure(op, dt) ==
    /\ phase = "failed"
    /\ failure.at = op
    /\ failure.kind \in {"unimplemented", "panic"}
    /\ Names(failure.arg, Offending(dt))

\* C12 (unsupported types are named): a descriptor outside the closed set that
\* reaches the factory, builder_extend or builder_append_null makes the
\* operation fail with an unsupported-type failure that shows the offending
\* type: the key type for an unsupported dictionary key, the element type for
\* an unsupported list element.
C12_UnsupportedTypeNamed ==
    /\ (phase # "init" /\ ~InClosedSet(col_type)) =>
          UnsupportedTypeFailure("new_array_builder", col_type)
    /\ (history # <<>> /\ ~InClosedSet(history[1].data_type)) =>
          UnsupportedTypeFailure(history[1].op, history[1].data_type)

\* builder, source array and descriptor do not agree on one type
Mismatch(call) == ~(col_type = call.src.dt /\ call.src.dt = call.data_type)

\* C13 (type mismatch is fatal): a builder_extend whose builder, source array
\* and descriptor do not agree on one type, be it only in the precision or
\* scale of a decimal, the zone of a timestamp or the string width of
\* dictionary values, fails and appends no row.
C13_MismatchFails ==
    (/\ history # <<>>
     /\ history[1].op = "builder_extend"
     /\ Mismatch(history[1])) => phase = "failed"

\* a step that is a completed builder_extend on the one builder
ExtendDone == ExtendStep /\ phase' = "building"

\* the call a step appends to the history
LastCall == history'[Len(history')]

\* the elements source row i of a list array spans
ElementCount(src, i) == src.offsets[i + 2] - src.offsets[i + 1]

\* C14 (null list rows leave the child alone): on a list builder,
\* builder_append_null adds one invalid outer row and leaves the child builder
\* as it is; builder_extend adds per index one outer row of the validity of
\* the source row, spanning no element for an invalid source row and exactly
\* the elements of the source row for a valid one, an empty valid row staying
\* a valid row; the child builder ends at the last offset.
C14_NullListRowKeepsChild ==
    [][(col_type.tag = "List" /\ phase = "building" /\ phase' = "building") =>
          /\ AppendNullStep =>
                /\ builder'.values = builder.values
                /\ builder'.valid = Append(builder.valid, FALSE)
                /\ builder'.offsets = Append(builder.offsets, builder_len(builder.values))
          /\ ExtendDone =>
                /\ Len(builder'.valid) = Len(builder.valid) + Len(LastCall.idx)
                /\ Len(builder'.offsets) = Len(builder'.valid) + 1
                /\ \A k \in 1..Len(LastCall.idx) :
                      LET n == Len(builder.valid) + k
                      IN  /\ builder'.valid[n] = is_valid(LastCall.src, LastCall.idx[k])
                          /\ builder'.offsets[n + 1] - builder'.offsets[n] =
                                IF is_valid(LastCall.src, LastCall.idx[k])
                                THEN ElementCount(LastCall.src, LastCall.idx[k])
                                ELSE 0
                /\ \A n \in 1..Len(builder.offsets) : builder'.offsets[n] = builder.offsets[n]
                /\ builder_len(builder'.values) = builder'.offsets[Len(builder'.offsets)]]_vars

\* C14 witness: a list builder after the gather of a row of two elements, of
\* a null row that spans one element in the source, and of a valid empty row
C14_Witness ==
    /\ phase = "building"
    /\ col_type = List(Int32)
    /\ OneExtend
    /\ ElementCount(history[1].src, 1) = 1
    /\ builder.valid = <<TRUE, FALSE, TRUE>>
    /\ builder.offsets = <<0, 2, 2, 2>>
    /\ builder_len(builder.values) = 2

\* C15 (null-only builder): the builder starts at length 0,
\* builder_append_null adds one row, builder_extend adds one row per index
\* whatever the indices are, and finish yields an array of the accumulated
\* length whose rows are all invalid.
C15_NullBuilderCounts ==
    [][col_type = Null =>
          /\ (phase = "init" /\ phase' = "building") => builder' = NullBuilder_new /\ builder'.len = 0
          /\ (AppendNullStep \/ ExtendStep) => phase' = "building"
          /\ AppendNullStep => builder_len(builder') = builder_len(builder) + 1
          /\ ExtendDone => builder_len(builder') = builder_len(builder) + Len(LastCall.idx)
          /\ FinishStep =>
                /\ phase' = "finished"
                /\ finished'.dt = Null
                /\ array_len(finished') = builder_len(builder)
                /\ \A i \in 0..(array_len(finished') - 1) : ~is_valid(finished', i)]_vars

\* C15 witness: a null array of three rows, two gathered with the index list
\* [2, 2] and one appended
C15_Witness ==
    /\ phase = "finished"
    /\ col_type = Null
    /\ Len(history) = 2
    /\ history[1].op = "builder_extend" /\ history[1].idx = <<2, 2>>
    /\ history[2].op = "builder_append_null"
    /\ finished = NullArray_new(3)

\* the builder after the calls h[k..] made on builder b, NoBuilder when one fails
RECURSIVE Replay(_, _, _)
Replay(b, h, k) ==
    IF k > Len(h) \/ b = NoBuilder THEN b
    ELSE LET r == IF h[k].op = "builder_extend"
                  THEN builder_extend(b, h[k].src, h[k].idx, col_type)
                  ELSE builder_append_null(b, col_type)
         IN  Replay(IF r.ok THEN r.b ELSE NoBuilder, h, k + 1)

\* the last two calls of h are builder_extend calls on one source array
LastTwoExtendSameSource(h) ==
    /\ Len(h) >= 2
    /\ h[Len(h)].op = "builder_extend"
    /\ h[Len(h) - 1].op = "builder_extend"
    /\ h[Len(h)].src = h[Len(h) - 1].src

\* h with its last two calls made one, on the concatenation of their indices
MergeLastTwo(h) ==
    Append(SubSeq(h, 1, Len(h) - 2),
           [h[Len(h)] EXCEPT !.idx = h[Len(h) - 1].idx \o h[Len(h)].idx])

\* C16 (extend composes): builder_extend with xs followed by builder_extend
\* with ys on the same source leaves the builder as one builder_extend with
\* xs followed by ys does, and builder_extend with no index leaves the builder
\* as it was, for leaf, dictionary, list and struct builders alike.
C16_ExtendComposes ==
    [][(phase = "building" /\ ExtendStep) =>
          /\ LastCall.idx = <<>> => phase' = "building" /\ builder' = builder
          /\ LastTwoExtendSameSource(history') =>
                LET whole == Replay(new_array_builder(col_type).b, MergeLastTwo(history'), 1)
                IN  IF phase' = "building" THEN builder' = whole ELSE whole = NoBuilder]_vars

\* C16 witness: a struct builder after two gathers from one source array, of
\* one index each
C16_Witness ==
    /\ phase = "building"
    /\ col_type = Struct(<<Int32, Utf8>>)
    /\ LastTwoExtendSameSource(history)
    /\ history[1].idx = <<2>> /\ history[2].idx = <<0>>
    /\ builder.valid = <<TRUE, TRUE>>

====
